---- MODULE Spec2Model ----
(***************************************************************************)
(* RSqlDb SQL front end: Lexer (parser/src/lexer.rs), Parser               *)
(* (parser/src/lib.rs), schema lowering (common/src/schema.rs,             *)
(* common/src/types.rs) and Planner (planner/src/planner.rs).              *)
(*                                                                         *)
(* A character is a string; a text is a sequence of characters.  ASCII     *)
(* characters stand for themselves; the other characters the model         *)
(* carries are named: "sup2" is U+00B2 (numeric, not an ASCII digit),      *)
(* "backtick" is U+0060 (which a TLA+ string cannot hold), "eacute" is     *)
(* U+00E9 (alphabetic), "euro" is U+20AC (none of whitespace, numeric,     *)
(* alphabetic, ASCII punctuation).                                         *)
(* Option<T> is a sequence: <<>> is None, <<x>> is Some(x).                *)
(***************************************************************************)
EXTENDS Integers, Sequences, FiniteSets, TLC

VARIABLES input, lexer, pc, locals, stmt, result, plan, semiEnd, exprLog

vars == <<input, lexer, pc, locals, stmt, result, plan, semiEnd, exprLog>>

None == <<>>

Some(x) == <<x>>

Min(S) == CHOOSE m \in S : \A n \in S : m <= n

(***************************************************************************)
(* Character classes (std char::is_whitespace, is_ascii_digit, is_numeric, *)
(* is_alphabetic, is_alphanumeric, is_ascii_punctuation).                  *)
(***************************************************************************)
Whitespace == {" ", "\n", "\t"}

AsciiDigit == {"0", "1", "2", "3", "4", "5", "6", "7", "8", "9"}

Numeric == AsciiDigit \cup {"sup2"}

LowerLetters == <<"a", "b", "c", "d", "e", "f", "g", "h", "i", "j", "k", "l", "m",
                  "n", "o", "p", "q", "r", "s", "t", "u", "v", "w", "x", "y", "z",
                  "eacute">>

UpperLetters == <<"A", "B", "C", "D", "E", "F", "G", "H", "I", "J", "K", "L", "M",
                  "N", "O", "P", "Q", "R", "S", "T", "U", "V", "W", "X", "Y", "Z",
                  "Eacute">>

Alphabetic == {LowerLetters[i] : i \in 1..Len(LowerLetters)}
                \cup {UpperLetters[i] : i \in 1..Len(UpperLetters)}

Alphanumeric == Alphabetic \cup Numeric

AsciiPunctuation == {"!", "\"", "#", "$", "%", "&", "'", "(", ")", "*", "+", ",",
                     "-", ".", "/", ":", ";", "<", "=", ">", "?", "@", "[", "\\",
                     "]", "^", "_", "backtick", "{", "|", "}", "~"}

\* str::to_uppercase, character by character
ToUpper(c) ==
    IF \E i \in 1..Len(LowerLetters) : LowerLetters[i] = c
    THEN UpperLetters[CHOOSE i \in 1..Len(LowerLetters) : LowerLetters[i] = c]
    ELSE c

ToUppercase(s) == [i \in 1..Len(s) |-> ToUpper(s[i])]

(***************************************************************************)
(* Tokens (token.rs).  Every token is [type, val] with val a sequence of   *)
(* strings: the text of an Ident, String or Number, the one-element name   *)
(* of a Keyword or Symbol.  NoToken is the iterator's None.                *)
(***************************************************************************)
Keyword(k) == [type |-> "Keyword", val |-> <<k>>]

Ident(s) == [type |-> "Ident", val |-> s]

String(s) == [type |-> "String", val |-> s]

Number(s) == [type |-> "Number", val |-> s]

Symbol(s) == [type |-> "Symbol", val |-> <<s>>]

NoToken == [type |-> "None", val |-> <<>>]

KeywordNames == {"Create", "Table", "Int", "Integer", "Boolean", "Bool", "String",
                 "Text", "Varchar", "Float", "Double", "Select", "From", "Insert",
                 "Into", "Values", "True", "False", "Default", "Not", "Null",
                 "Primary", "Key"}

\* the match arms of Keyword::from_str
KeywordSpelling(k) ==
    CASE k = "Create"  -> <<"C", "R", "E", "A", "T", "E">>
      [] k = "Table"   -> <<"T", "A", "B", "L", "E">>
      [] k = "Int"     -> <<"I", "N", "T">>
      [] k = "Integer" -> <<"I", "N", "T", "E", "G", "E", "R">>
      [] k = "Boolean" -> <<"B", "O", "O", "L", "E", "A", "N">>
      [] k = "Bool"    -> <<"B", "O", "O", "L">>
      [] k = "String"  -> <<"S", "T", "R", "I", "N", "G">>
      [] k = "Text"    -> <<"T", "E", "X", "T">>
      [] k = "Varchar" -> <<"V", "A", "R", "C", "H", "A", "R">>
      [] k = "Float"   -> <<"F", "L", "O", "A", "T">>
      [] k = "Double"  -> <<"D", "O", "U", "B", "L", "E">>
      [] k = "Select"  -> <<"S", "E", "L", "E", "C", "T">>
      [] k = "From"    -> <<"F", "R", "O", "M">>
      [] k = "Insert"  -> <<"I", "N", "S", "E", "R", "T">>
      [] k = "Into"    -> <<"I", "N", "T", "O">>
      [] k = "Values"  -> <<"V", "A", "L", "U", "E", "S">>
      [] k = "True"    -> <<"T", "R", "U", "E">>
      [] k = "False"   -> <<"F", "A", "L", "S", "E">>
      [] k = "Default" -> <<"D", "E", "F", "A", "U", "L", "T">>
      [] k = "Not"     -> <<"N", "O", "T">>
      [] k = "Null"    -> <<"N", "U", "L", "L">>
      [] k = "Primary" -> <<"P", "R", "I", "M", "A", "R", "Y">>
      [] k = "Key"     -> <<"K", "E", "Y">>

\* Keyword::from_str: Some(keyword) or None (the Err arm)
KeywordFromStr(s) ==
    LET up == ToUppercase(s)
        hits == {k \in KeywordNames : KeywordSpelling(k) = up}
    IN  IF hits = {} THEN None ELSE Some(CHOOSE k \in hits : TRUE)

\* Symbol::try_from: Some(symbol) or None (the Err arm)
SymbolTryFrom(c) ==
    CASE c = "(" -> Some("OpenParen")
      [] c = ")" -> Some("CloseParen")
      [] c = "," -> Some("Comma")
      [] c = ";" -> Some("Semicolon")
      [] c = "*" -> Some("Asterisk")
      [] c = "+" -> Some("Plus")
      [] c = "-" -> Some("Minus")
      [] c = "/" -> Some("Slash")
      [] OTHER   -> None

(***************************************************************************)
(* Lexer (lexer.rs).  The cursor `inner` is the index of the next          *)
(* character of the text that has not been consumed.  A scan returns       *)
(* [tok, inner, err]: the token or NoToken, the cursor afterwards, and     *)
(* why no token came: "eof" (input exhausted), "badchar" (unrecognised     *)
(* punctuation or character class), "unterminated" (string without a       *)
(* closing quote), "" otherwise.                                           *)
(***************************************************************************)
\* `while self.inner.next_if(|c| c in S).is_some() {}`: the index after the run
\* of characters of S that starts at p
EndOfRun(text, p, S) ==
    LET stops == {i \in p..Len(text) : text[i] \notin S}
    IN  IF stops = {} THEN Len(text) + 1 ELSE Min(stops)

scan_string(text, p) ==
    LET quotes == {i \in (p + 1)..Len(text) : text[i] = "'"}
    IN  IF text[p] # "'"
        THEN [tok |-> NoToken, inner |-> p, err |-> ""]
        ELSE IF quotes = {}
        THEN [tok |-> NoToken, inner |-> Len(text) + 1, err |-> "unterminated"]
        ELSE [tok |-> String(SubSeq(text, p + 1, Min(quotes) - 1)),
              inner |-> Min(quotes) + 1, err |-> ""]

scan_number(text, p) ==
    LET q == EndOfRun(text, p, Numeric)
        r == IF q <= Len(text) /\ text[q] = "."
             THEN EndOfRun(text, q + 1, Numeric)
             ELSE q
    IN  [tok |-> Number(SubSeq(text, p, r - 1)), inner |-> r, err |-> ""]

scan_keyword_or_ident(text, p) ==
    LET q == EndOfRun(text, p, Alphabetic)
        r == EndOfRun(text, q, Alphanumeric)
        val == SubSeq(text, p, r - 1)
        k == KeywordFromStr(val)
    IN  [tok |-> IF k = None THEN Ident(val) ELSE Keyword(k[1]),
         inner |-> r, err |-> ""]

\* scan_symbol taking the character (`self.inner.next()?`) before it is
\* converted, so that an unknown character is consumed
scan_symbol_ConsumesUnknown(text, p) ==
    LET symbol == SymbolTryFrom(text[p])
    IN  IF symbol = None
        THEN [tok |-> NoToken, inner |-> p + 1, err |-> "badchar"]
        ELSE [tok |-> Symbol(symbol[1]), inner |-> p + 1, err |-> ""]

scan_symbol(text, p) ==
    LET symbol == SymbolTryFrom(text[p])
    IN  IF symbol = None
        THEN [tok |-> NoToken, inner |-> p, err |-> "badchar"]
        ELSE [tok |-> Symbol(symbol[1]), inner |-> p + 1, err |-> ""]

\* the match of Lexer::scan on the character at p, the whitespace skipped
ScanAt(text, p) ==
    IF p > Len(text) THEN [tok |-> NoToken, inner |-> p, err |-> "eof"]
    ELSE IF text[p] = "'" THEN scan_string(text, p)
    ELSE IF text[p] \in AsciiDigit THEN scan_number(text, p)
    ELSE IF text[p] \in Alphabetic THEN scan_keyword_or_ident(text, p)
    ELSE IF text[p] \in AsciiPunctuation THEN scan_symbol(text, p)
    ELSE [tok |-> NoToken, inner |-> p, err |-> "badchar"]

\* Lexer::scan followed by Iterator::next's `.ok()?`: an Err becomes None
scan(text, pos) == ScanAt(text, EndOfRun(text, pos, Whitespace))

(***************************************************************************)
(* Peekable<Lexer> (std::iter::Peekable over the Lexer; lib.rs:33).  The   *)
(* lexer state is [inner, peeked, errs]: the character cursor, the cached  *)
(* lookahead (None: nothing cached; Some(t): t cached, NoToken included),  *)
(* and, as history, the reasons for which a scan has returned no token.    *)
(* Each operation returns [tok, lexer].                                    *)
(***************************************************************************)
LexerNew == [inner |-> 1, peeked |-> None, errs |-> {}]

\* the Lexer after a scan that returned r
Scanned(L, r) ==
    [tok |-> r.tok,
     lexer |-> [L EXCEPT !.inner = r.inner,
                         !.errs = IF r.err = "" THEN @ ELSE @ \cup {r.err}]]

\* Iterator::next for Lexer
LexerNext(text, L) == Scanned(L, scan(text, L.inner))

PeekableNext(text, L) ==
    IF L.peeked # None
    THEN [tok |-> L.peeked[1], lexer |-> [L EXCEPT !.peeked = None]]
    ELSE LexerNext(text, L)

\* `self.peeked.get_or_insert_with(|| iter.next())`, r being what next returned
Peeked(r) == [tok |-> r.tok, lexer |-> [r.lexer EXCEPT !.peeked = Some(r.tok)]]

PeekablePeek(text, L) ==
    IF L.peeked # None
    THEN [tok |-> L.peeked[1], lexer |-> L]
    ELSE Peeked(LexerNext(text, L))

\* the match of Peekable::next_if on r, what next returned: a token of one of
\* `types` is taken, anything else (None included) is put back into `peeked`
TakenIf(r, types) ==
    IF r.tok # NoToken /\ r.tok.type \in types
    THEN r
    ELSE [tok |-> NoToken, lexer |-> [r.lexer EXCEPT !.peeked = Some(r.tok)]]

\* next_if that looks at the token (Peekable::peek) and leaves it in place
KeptIf(r, types) ==
    IF r.tok # NoToken /\ r.tok.type \in types THEN r ELSE [tok |-> NoToken, lexer |-> r.lexer]

PeekableNextIf_KeepsToken(text, L, types) == KeptIf(PeekablePeek(text, L), types)

\* Peekable::next_if(|token| matches!(token, <a token of one of `types`>))
PeekableNextIf(text, L, types) == TakenIf(PeekableNext(text, L), types)

(***************************************************************************)
(* Parser helpers (lib.rs:202-223).  A Result is                           *)
(* [ok, v, lexer, msg, toks]: Ok(v) or Err(msg naming toks), and the       *)
(* lexer state after the call.                                             *)
(***************************************************************************)
Ok(v, L) == [ok |-> TRUE, v |-> v, lexer |-> L, msg |-> "", toks |-> <<>>]

Err(msg, toks, L) == [ok |-> FALSE, v |-> NoToken, lexer |-> L, msg |-> msg, toks |-> toks]

EndOfInput == "Unexpected end of input"

\* `.ok_or(anyhow!("Unexpected end of input"))`
OkOr(r) == IF r.tok = NoToken THEN Err(EndOfInput, <<>>, r.lexer) ELSE Ok(r.tok, r.lexer)

peek(text, L) == OkOr(PeekablePeek(text, L))

next(text, L) == OkOr(PeekableNext(text, L))

\* the match of next_ident on r, what `self.next()` returned
IdentOf(r) ==
    IF ~r.ok THEN r
    ELSE IF r.v.type = "Ident" THEN Ok(r.v.val, r.lexer)
    ELSE Err("Expected ident", <<r.v>>, r.lexer)

next_ident(text, L) == IdentOf(next(text, L))

\* the match of next_expect on r, what `self.peek()` returned
Expected(text, r, expected) ==
    IF ~r.ok THEN r
    ELSE IF r.v = expected THEN next(text, r.lexer)
    ELSE Err("Expected", <<expected, r.v>>, r.lexer)

\* next_expect comparing the peeked Option without the `?` on peek: at the end
\* of the input it reports a mismatch
ExpectedOrMismatch(text, r, expected) ==
    IF r.tok = expected THEN next(text, r.lexer)
    ELSE Err("Expected", <<expected, r.tok>>, r.lexer)

next_expect_MismatchAtEnd(text, L, expected) ==
    ExpectedOrMismatch(text, PeekablePeek(text, L), expected)

\* next_expect taking the token (`self.next()?`) before comparing it, so that
\* a token that does not match is lost
ExpectedTaken(text, r, expected) ==
    IF ~r.ok THEN r
    ELSE IF r.v = expected THEN r
    ELSE Err("Expected", <<expected, r.v>>, r.lexer)

next_expect_TakesFirst(text, L, expected) == ExpectedTaken(text, next(text, L), expected)

next_expect(text, L, expected) == Expected(text, peek(text, L), expected)

(***************************************************************************)
(* Literals.  The value of an Integer is its decimal numeral without       *)
(* leading zeros; the value of a Float is its decimal numeral without      *)
(* leading zeros in the integer part and without trailing zeros in the     *)
(* fraction (texts are short enough for f64 to tell such numerals apart).  *)
(***************************************************************************)
DigitValue(c) ==
    CASE c = "0" -> 0 [] c = "1" -> 1 [] c = "2" -> 2 [] c = "3" -> 3 [] c = "4" -> 4
      [] c = "5" -> 5 [] c = "6" -> 6 [] c = "7" -> 7 [] c = "8" -> 8 [] c = "9" -> 9

\* i64::MAX = 9223372036854775807
I64MaxDigits == <<"9", "2", "2", "3", "3", "7", "2", "0", "3", "6", "8", "5", "4", "7",
                  "7", "5", "8", "0", "7">>

StripLeadingZeros(d) ==
    LET k == EndOfRun(d, 1, {"0"})
    IN  IF k > Len(d) THEN <<"0">> ELSE SubSeq(d, k, Len(d))

StripTrailingZeros(d) ==
    LET nz == {i \in 1..Len(d) : d[i] # "0"}
    IN  IF nz = {} THEN <<>> ELSE SubSeq(d, 1, CHOOSE i \in nz : \A j \in nz : j <= i)

\* a > b for two digit sequences of the same length
DigitsGreater(a, b) ==
    \E i \in 1..Len(a) : /\ DigitValue(a[i]) > DigitValue(b[i])
                         /\ \A j \in 1..(i - 1) : a[j] = b[j]

\* str::parse::<i64>: Some(value) or None (ParseIntError)
ParseI64(n) ==
    LET d == StripLeadingZeros(n)
    IN  IF n = <<>> \/ \E i \in 1..Len(n) : n[i] \notin AsciiDigit THEN None
        ELSE IF Len(d) > Len(I64MaxDigits) THEN None
        ELSE IF Len(d) = Len(I64MaxDigits) /\ DigitsGreater(d, I64MaxDigits) THEN None
        ELSE Some(d)

\* str::parse::<f64> on digits with an optional point: Some(value) or None
\* (ParseFloatError)
ParseF64(n) ==
    LET dots == {i \in 1..Len(n) : n[i] = "."}
        dot == IF dots = {} THEN Len(n) + 1 ELSE Min(dots)
        int == SubSeq(n, 1, dot - 1)
        frac == SubSeq(n, dot + 1, Len(n))
    IN  IF \E i \in 1..Len(n) : n[i] \notin AsciiDigit \cup {"."} THEN None
        ELSE IF Cardinality(dots) > 1 \/ Len(n) = Cardinality(dots) THEN None
        ELSE Some(StripLeadingZeros(int) \o <<".">> \o StripTrailingZeros(frac))

Const(tag, val) == [tag |-> tag, val |-> val]

\* impl From<Const> for Expression (common/src/ast.rs)
ExpressionFrom(c) == [node |-> "Const", const |-> c]

\* the arm of parse_expression for Token::Number(n), the Integer test being isInt
NumberLiteral(n, isInt, L) ==
    IF isInt
    THEN IF ParseI64(n) = None THEN Err("ParseIntError", <<>>, L)
         ELSE Ok(ExpressionFrom(Const("Integer", ParseI64(n)[1])), L)
    ELSE IF ParseF64(n) = None THEN Err("ParseFloatError", <<>>, L)
         ELSE Ok(ExpressionFrom(Const("Float", ParseF64(n)[1])), L)

\* the match of parse_expression on r, what `self.next()` returned, with `any`
\* for `all` in the Integer test
ExpressionOf_AnyDigit(r) ==
    IF ~r.ok THEN r
    ELSE IF r.v.type = "Number"
    THEN NumberLiteral(r.v.val, \E i \in 1..Len(r.v.val) : r.v.val[i] \in AsciiDigit, r.lexer)
    ELSE IF r.v.type = "String" THEN Ok(ExpressionFrom(Const("String", r.v.val)), r.lexer)
    ELSE IF r.v = Keyword("True")
    THEN Ok(ExpressionFrom(Const("Boolean", <<"true">>)), r.lexer)
    ELSE IF r.v = Keyword("False")
    THEN Ok(ExpressionFrom(Const("Boolean", <<"false">>)), r.lexer)
    ELSE IF r.v = Keyword("Null") THEN Ok(ExpressionFrom(Const("Null", <<>>)), r.lexer)
    ELSE Err("Unexpected expression token", <<r.v>>, r.lexer)

parse_expression_AnyDigit(text, L) == ExpressionOf_AnyDigit(next(text, L))

\* the match of parse_expression on r, what `self.next()` returned
ExpressionOf(r) ==
    IF ~r.ok THEN r
    ELSE IF r.v.type = "Number"
    THEN NumberLiteral(r.v.val, \A i \in 1..Len(r.v.val) : r.v.val[i] \in AsciiDigit, r.lexer)
    ELSE IF r.v.type = "String" THEN Ok(ExpressionFrom(Const("String", r.v.val)), r.lexer)
    ELSE IF r.v = Keyword("True")
    THEN Ok(ExpressionFrom(Const("Boolean", <<"true">>)), r.lexer)
    ELSE IF r.v = Keyword("False")
    THEN Ok(ExpressionFrom(Const("Boolean", <<"false">>)), r.lexer)
    ELSE IF r.v = Keyword("Null") THEN Ok(ExpressionFrom(Const("Null", <<>>)), r.lexer)
    ELSE Err("Unexpected expression token", <<r.v>>, r.lexer)

\* Parser::parse_expression; v is the Expression
parse_expression(text, L) == ExpressionOf(next(text, L))

(***************************************************************************)
(* Lowering (common/src/types.rs, common/src/schema.rs) and the Planner    *)
(* (planner/src/planner.rs).                                               *)
(***************************************************************************)
\* impl From<Expression> for Value
ValueFrom(expr) ==
    CASE expr.const.tag = "Null"    -> [tag |-> "Null", val |-> <<>>]
      [] expr.const.tag = "Boolean" -> [tag |-> "Boolean", val |-> expr.const.val]
      [] expr.const.tag = "Integer" -> [tag |-> "Integer", val |-> expr.const.val]
      [] expr.const.tag = "Float"   -> [tag |-> "Float", val |-> expr.const.val]
      [] expr.const.tag = "String"  -> [tag |-> "String", val |-> expr.const.val]

\* Column::from with nullable set by any written nullability constraint
ColumnFrom_NullableWhenSet(value) ==
    LET nullable == value.nullable # None
    IN  [name |-> value.name,
         data_type |-> value.data_type,
         nullable |-> nullable,
         default |-> IF value.default # None THEN Some(ValueFrom(value.default[1]))
                     ELSE IF nullable THEN Some([tag |-> "Null", val |-> <<>>])
                     ELSE None]

\* Column::from without the `None if nullable` arm
ColumnFrom_NoNullDefault(value) ==
    LET nullable == IF value.nullable = None THEN FALSE ELSE value.nullable[1]
    IN  [name |-> value.name,
         data_type |-> value.data_type,
         nullable |-> nullable,
         default |-> IF value.default # None THEN Some(ValueFrom(value.default[1]))
                     ELSE None]

\* impl From<ast::Column> for Column
ColumnFrom(value) ==
    LET nullable == IF value.nullable = None THEN FALSE ELSE value.nullable[1]
    IN  [name |-> value.name,
         data_type |-> value.data_type,
         nullable |-> nullable,
         default |-> IF value.default # None THEN Some(ValueFrom(value.default[1]))
                     ELSE IF nullable THEN Some([tag |-> "Null", val |-> <<>>])
                     ELSE None]

\* build_statement with the Select arm building the Insert node
build_statement_SelectAsInsert(s) ==
    CASE s.kind = "Create" ->
            [kind |-> "Create",
             schema |-> [name |-> s.table_name,
                         columns |-> [i \in 1..Len(s.columns) |-> ColumnFrom(s.columns[i])]]]
      [] s.kind = "Insert" ->
            [kind |-> "Insert",
             table_name |-> s.table_name,
             columns |-> IF s.columns = None THEN <<>> ELSE s.columns[1],
             values |-> [i \in 1..Len(s.values) |->
                            [j \in 1..Len(s.values[i]) |-> ValueFrom(s.values[i][j])]]]
      [] s.kind = "Select" ->
            [kind |-> "Insert", table_name |-> s.table_name, columns |-> <<>>,
             values |-> <<>>]

\* Planner::build_statement
build_statement(s) ==
    CASE s.kind = "Create" ->
            [kind |-> "Create",
             schema |-> [name |-> s.table_name,
                         columns |-> [i \in 1..Len(s.columns) |-> ColumnFrom(s.columns[i])]]]
      [] s.kind = "Insert" ->
            [kind |-> "Insert",
             table_name |-> s.table_name,
             columns |-> IF s.columns = None THEN <<>> ELSE s.columns[1],
             values |-> [i \in 1..Len(s.values) |->
                            [j \in 1..Len(s.values[i]) |-> ValueFrom(s.values[i][j])]]]
      [] s.kind = "Select" -> [kind |-> "Scan", table_name |-> s.table_name]

(***************************************************************************)
(* The parse as a state machine.  pc is the place in the parser the        *)
(* control is at; locals holds the local variables of the parse_*          *)
(* function being executed; stmt is the Statement parse_statement          *)
(* returned; result is what Parser::parse returned; plan is Plan::build's  *)
(* Node.  History: semiEnd is the lexer cursor right after parse consumed  *)
(* the terminating `;` (0 before); exprLog is the token taken and the      *)
(* Result returned by the last call of parse_expression.                   *)
(***************************************************************************)
NoLocals == [table_name |-> <<>>, columns |-> <<>>, col |-> None, cols |-> <<>>,
             values |-> <<>>, exprs |-> <<>>]

Running == [kind |-> "none", msg |-> "", toks |-> <<>>]

Goto(L, p, loc, log) ==
    /\ lexer' = L
    /\ pc' = p
    /\ locals' = loc
    /\ exprLog' = log
    /\ UNCHANGED <<input, stmt, result, plan, semiEnd>>

\* an Err propagated by `?` or raised by bail! up to the caller of Parser::parse
Fail(r, log) ==
    /\ lexer' = r.lexer
    /\ pc' = "done"
    /\ result' = [kind |-> "err", msg |-> r.msg, toks |-> r.toks]
    /\ exprLog' = log
    /\ UNCHANGED <<input, locals, stmt, plan, semiEnd>>

\* parse_statement returns Ok(s) to Parser::parse
Return(L, s, loc, log) ==
    /\ lexer' = L
    /\ pc' = "parse"
    /\ stmt' = Some(s)
    /\ locals' = loc
    /\ exprLog' = log
    /\ UNCHANGED <<input, result, plan, semiEnd>>

LogOf(r) ==
    Some([tok |-> PeekableNext(input, lexer).tok, ok |-> r.ok, v |-> r.v, msg |-> r.msg])

ParseStatement ==
    /\ pc = "parse_statement"
    /\ LET r == peek(input, lexer)
       IN  IF ~r.ok THEN Fail(r, exprLog)
           ELSE IF r.v = Keyword("Create") THEN Goto(r.lexer, "parse_ddl", locals, exprLog)
           ELSE IF r.v = Keyword("Select") THEN Goto(r.lexer, "parse_select", locals, exprLog)
           ELSE IF r.v = Keyword("Insert") THEN Goto(r.lexer, "parse_insert", locals, exprLog)
           ELSE Fail(Err("Unexpected token", <<r.v>>, r.lexer), exprLog)

\* parse_ddl peeking at the second token and reporting it alone
ParseDdl_SecondOnly ==
    /\ pc = "parse_ddl"
    /\ LET r1 == next(input, lexer)
           r2 == peek(input, r1.lexer)
       IN  IF ~r1.ok THEN Fail(r1, exprLog)
           ELSE IF ~r2.ok THEN Fail(r2, exprLog)
           ELSE IF r1.v = Keyword("Create") /\ r2.v = Keyword("Table")
           THEN Goto(next(input, r2.lexer).lexer, "parse_ddl_create_table", locals, exprLog)
           ELSE Fail(Err("Unexpected token", <<r2.v>>, r2.lexer), exprLog)

ParseDdl ==
    /\ pc = "parse_ddl"
    /\ LET r1 == next(input, lexer)
           r2 == next(input, r1.lexer)
       IN  IF ~r1.ok THEN Fail(r1, exprLog)
           ELSE IF ~r2.ok THEN Fail(r2, exprLog)
           ELSE IF r1.v = Keyword("Create") /\ r2.v = Keyword("Table")
           THEN Goto(r2.lexer, "parse_ddl_create_table", locals, exprLog)
           ELSE Fail(Err("Not a ddl statement", <<r1.v, r2.v>>, r2.lexer), exprLog)

ParseSelect ==
    /\ pc = "parse_select"
    /\ LET r1 == next_expect(input, lexer, Keyword("Select"))
           r2 == next_expect(input, r1.lexer, Symbol("Asterisk"))
           r3 == next_expect(input, r2.lexer, Keyword("From"))
           r4 == next_ident(input, r3.lexer)
       IN  IF ~r1.ok THEN Fail(r1, exprLog)
           ELSE IF ~r2.ok THEN Fail(r2, exprLog)
           ELSE IF ~r3.ok THEN Fail(r3, exprLog)
           ELSE IF ~r4.ok THEN Fail(r4, exprLog)
           ELSE Return(r4.lexer, [kind |-> "Select", table_name |-> r4.v], locals, exprLog)

\* parse_insert up to the optional `(` (lib.rs:86-91, 104-106)
ParseInsert ==
    /\ pc = "parse_insert"
    /\ LET r1 == next_expect(input, lexer, Keyword("Insert"))
           r2 == next_expect(input, r1.lexer, Keyword("Into"))
           r3 == next_ident(input, r2.lexer)
           r4 == next_expect(input, r3.lexer, Symbol("OpenParen"))
           loc == [locals EXCEPT !.table_name = r3.v, !.columns = None]
       IN  IF ~r1.ok THEN Fail(r1, exprLog)
           ELSE IF ~r2.ok THEN Fail(r2, exprLog)
           ELSE IF ~r3.ok THEN Fail(r3, exprLog)
           ELSE IF r4.ok THEN Goto(r4.lexer, "insert_columns", loc, exprLog)
           ELSE Goto(r4.lexer, "insert_values", loc, exprLog)

\* the column-name loop with `cols` created anew in each iteration
ParseInsertColumns_ColsReset ==
    /\ pc = "insert_columns"
    /\ LET r1 == next_ident(input, lexer)
           r2 == next(input, r1.lexer)
           cols == <<r1.v>>
       IN  IF ~r1.ok THEN Fail(r1, exprLog)
           ELSE IF ~r2.ok THEN Fail(r2, exprLog)
           ELSE IF r2.v = Symbol("CloseParen")
           THEN Goto(r2.lexer, "insert_values",
                     [locals EXCEPT !.cols = cols, !.columns = Some(cols)], exprLog)
           ELSE IF r2.v = Symbol("Comma")
           THEN Goto(r2.lexer, "insert_columns", [locals EXCEPT !.cols = cols], exprLog)
           ELSE Fail(Err("Unexpected token", <<r2.v>>, r2.lexer), exprLog)

\* one iteration of the column-name loop (lib.rs:94-103)
ParseInsertColumns ==
    /\ pc = "insert_columns"
    /\ LET r1 == next_ident(input, lexer)
           r2 == next(input, r1.lexer)
           cols == Append(locals.cols, r1.v)
       IN  IF ~r1.ok THEN Fail(r1, exprLog)
           ELSE IF ~r2.ok THEN Fail(r2, exprLog)
           ELSE IF r2.v = Symbol("CloseParen")
           THEN Goto(r2.lexer, "insert_values",
                     [locals EXCEPT !.cols = cols, !.columns = Some(cols)], exprLog)
           ELSE IF r2.v = Symbol("Comma")
           THEN Goto(r2.lexer, "insert_columns", [locals EXCEPT !.cols = cols], exprLog)
           ELSE Fail(Err("Unexpected token", <<r2.v>>, r2.lexer), exprLog)

\* lib.rs:108-110
ParseInsertValues ==
    /\ pc = "insert_values"
    /\ LET r == next_expect(input, lexer, Keyword("Values"))
       IN  IF ~r.ok THEN Fail(r, exprLog)
           ELSE Goto(r.lexer, "insert_row", [locals EXCEPT !.values = <<>>], exprLog)

\* the head of one iteration of the row loop (lib.rs:113-115)
ParseInsertRow ==
    /\ pc = "insert_row"
    /\ LET r == next_expect(input, lexer, Symbol("OpenParen"))
       IN  IF ~r.ok THEN Fail(r, exprLog)
           ELSE Goto(r.lexer, "insert_exprs", [locals EXCEPT !.exprs = <<>>], exprLog)

\* one iteration of the expression loop and, when it breaks, the tail of the
\* row loop (lib.rs:118-133)
ParseInsertExprs ==
    /\ pc = "insert_exprs"
    /\ LET r1 == parse_expression(input, lexer)
           r2 == next(input, r1.lexer)
           exprs == Append(locals.exprs, r1.v)
           values == Append(locals.values, exprs)
           r3 == next_expect(input, r2.lexer, Symbol("Comma"))
           log == LogOf(r1)
       IN  IF ~r1.ok THEN Fail(r1, log)
           ELSE IF ~r2.ok THEN Fail(r2, log)
           ELSE IF r2.v = Symbol("Comma")
           THEN Goto(r2.lexer, "insert_exprs", [locals EXCEPT !.exprs = exprs], log)
           ELSE IF r2.v # Symbol("CloseParen")
           THEN Fail(Err("Unexpected token", <<r2.v>>, r2.lexer), log)
           ELSE IF r3.ok
           THEN Goto(r3.lexer, "insert_row",
                     [locals EXCEPT !.exprs = exprs, !.values = values], log)
           ELSE Return(r3.lexer,
                       [kind |-> "Insert", table_name |-> locals.table_name,
                        columns |-> locals.columns, values |-> values],
                       [locals EXCEPT !.exprs = exprs, !.values = values], log)

\* parse_ddl_create_table looking for the `)` before the first column
ParseDdlCreateTable_AllowsEmpty ==
    /\ pc = "parse_ddl_create_table"
    /\ LET r1 == next_ident(input, lexer)
           r2 == next_expect(input, r1.lexer, Symbol("OpenParen"))
           r3 == next_expect(input, r2.lexer, Symbol("CloseParen"))
           loc == [locals EXCEPT !.table_name = r1.v, !.columns = <<>>]
       IN  IF ~r1.ok THEN Fail(r1, exprLog)
           ELSE IF ~r2.ok THEN Fail(r2, exprLog)
           ELSE IF r3.ok
           THEN Return(r3.lexer, [kind |-> "Create", table_name |-> r1.v, columns |-> <<>>],
                       loc, exprLog)
           ELSE Goto(r3.lexer, "parse_ddl_column", loc, exprLog)

\* parse_ddl_create_table up to the column loop (lib.rs:137-141)
ParseDdlCreateTable ==
    /\ pc = "parse_ddl_create_table"
    /\ LET r1 == next_ident(input, lexer)
           r2 == next_expect(input, r1.lexer, Symbol("OpenParen"))
       IN  IF ~r1.ok THEN Fail(r1, exprLog)
           ELSE IF ~r2.ok THEN Fail(r2, exprLog)
           ELSE Goto(r2.lexer, "parse_ddl_column",
                     [locals EXCEPT !.table_name = r1.v, !.columns = <<>>], exprLog)

\* the match on the type keyword taking DOUBLE for a Float
DataTypeOf_DoubleAsFloat(t) ==
    IF t \in {Keyword("Integer"), Keyword("Int")} THEN Some("Integer")
    ELSE IF t \in {Keyword("Bool"), Keyword("Boolean")} THEN Some("Boolean")
    ELSE IF t \in {Keyword("Float"), Keyword("Double")} THEN Some("Float")
    ELSE IF t \in {Keyword("String"), Keyword("Text"), Keyword("Varchar")} THEN Some("String")
    ELSE None

\* the match on the type keyword in parse_ddl_column (lib.rs:159-165)
DataTypeOf(t) ==
    IF t \in {Keyword("Integer"), Keyword("Int")} THEN Some("Integer")
    ELSE IF t \in {Keyword("Bool"), Keyword("Boolean")} THEN Some("Boolean")
    ELSE IF t = Keyword("Float") THEN Some("Float")
    ELSE IF t \in {Keyword("String"), Keyword("Text"), Keyword("Varchar")} THEN Some("String")
    ELSE None

\* parse_ddl_column up to the constraint loop (lib.rs:157-168)
ParseDdlColumn ==
    /\ pc = "parse_ddl_column"
    /\ LET r1 == next_ident(input, lexer)
           r2 == next(input, r1.lexer)
           ty == DataTypeOf(r2.v)
       IN  IF ~r1.ok THEN Fail(r1, exprLog)
           ELSE IF ~r2.ok THEN Fail(r2, exprLog)
           ELSE IF ty = None THEN Fail(Err("Unexpected token", <<r2.v>>, r2.lexer), exprLog)
           ELSE Goto(r2.lexer, "ddl_constraint",
                     [locals EXCEPT !.col = Some([name |-> r1.v, data_type |-> ty[1],
                                                  nullable |-> None, default |-> None])],
                     exprLog)

\* the constraint loop with the NOT arm taking the token after NOT itself and
\* reporting it as an unexpected keyword
ParseDdlConstraint_NotTakesNext ==
    /\ pc = "ddl_constraint"
    /\ LET r == PeekableNextIf(input, lexer, {"Keyword"})
           col == locals.col[1]
           rn == next(input, r.lexer)
           re == parse_expression(input, r.lexer)
           log == [tok |-> PeekableNext(input, r.lexer).tok, ok |-> re.ok, v |-> re.v,
                   msg |-> re.msg]
       IN  IF r.tok = NoToken
           THEN Goto(r.lexer, "ddl_columns_loop",
                     [locals EXCEPT !.columns = Append(@, col), !.col = None], exprLog)
           ELSE IF r.tok = Keyword("Null")
           THEN Goto(r.lexer, "ddl_constraint",
                     [locals EXCEPT !.col = Some([col EXCEPT !.nullable = Some(TRUE)])],
                     exprLog)
           ELSE IF r.tok = Keyword("Not")
           THEN IF ~rn.ok THEN Fail(rn, exprLog)
                ELSE IF rn.v # Keyword("Null")
                THEN Fail(Err("Unexpected keyword", <<rn.v>>, rn.lexer), exprLog)
                ELSE Goto(rn.lexer, "ddl_constraint",
                          [locals EXCEPT !.col = Some([col EXCEPT !.nullable = Some(FALSE)])],
                          exprLog)
           ELSE IF r.tok = Keyword("Default")
           THEN IF ~re.ok THEN Fail(re, Some(log))
                ELSE Goto(re.lexer, "ddl_constraint",
                          [locals EXCEPT !.col = Some([col EXCEPT !.default = Some(re.v)])],
                          Some(log))
           ELSE Fail(Err("Unexpected keyword", <<r.tok>>, r.lexer), exprLog)

\* the constraint loop keeping the first value of a repeated constraint kind
ParseDdlConstraint_FirstWins ==
    /\ pc = "ddl_constraint"
    /\ LET r == PeekableNextIf(input, lexer, {"Keyword"})
           col == locals.col[1]
           rn == next_expect(input, r.lexer, Keyword("Null"))
           re == parse_expression(input, r.lexer)
           log == [tok |-> PeekableNext(input, r.lexer).tok, ok |-> re.ok, v |-> re.v,
                   msg |-> re.msg]
           nullable(b) == IF col.nullable = None THEN Some(b) ELSE col.nullable
           default(e) == IF col.default = None THEN Some(e) ELSE col.default
       IN  IF r.tok = NoToken
           THEN Goto(r.lexer, "ddl_columns_loop",
                     [locals EXCEPT !.columns = Append(@, col), !.col = None], exprLog)
           ELSE IF r.tok = Keyword("Null")
           THEN Goto(r.lexer, "ddl_constraint",
                     [locals EXCEPT !.col = Some([col EXCEPT !.nullable = nullable(TRUE)])],
                     exprLog)
           ELSE IF r.tok = Keyword("Not")
           THEN IF ~rn.ok THEN Fail(rn, exprLog)
                ELSE Goto(rn.lexer, "ddl_constraint",
                          [locals EXCEPT !.col = Some([col EXCEPT !.nullable = nullable(FALSE)])],
                          exprLog)
           ELSE IF r.tok = Keyword("Default")
           THEN IF ~re.ok THEN Fail(re, Some(log))
                ELSE Goto(re.lexer, "ddl_constraint",
                          [locals EXCEPT !.col = Some([col EXCEPT !.default = default(re.v)])],
                          Some(log))
           ELSE Fail(Err("Unexpected keyword", <<r.tok>>, r.lexer), exprLog)

\* one iteration of the constraint loop of parse_ddl_column; when the next
\* token is no keyword the column is returned and pushed (lib.rs:170-182, 144)
ParseDdlConstraint ==
    /\ pc = "ddl_constraint"
    /\ LET r == PeekableNextIf(input, lexer, {"Keyword"})
           col == locals.col[1]
           rn == next_expect(input, r.lexer, Keyword("Null"))
           re == parse_expression(input, r.lexer)
           log == [tok |-> PeekableNext(input, r.lexer).tok, ok |-> re.ok, v |-> re.v,
                   msg |-> re.msg]
       IN  IF r.tok = NoToken
           THEN Goto(r.lexer, "ddl_columns_loop",
                     [locals EXCEPT !.columns = Append(@, col), !.col = None], exprLog)
           ELSE IF r.tok = Keyword("Null")
           THEN Goto(r.lexer, "ddl_constraint",
                     [locals EXCEPT !.col = Some([col EXCEPT !.nullable = Some(TRUE)])],
                     exprLog)
           ELSE IF r.tok = Keyword("Not")
           THEN IF ~rn.ok THEN Fail(rn, exprLog)
                ELSE Goto(rn.lexer, "ddl_constraint",
                          [locals EXCEPT !.col = Some([col EXCEPT !.nullable = Some(FALSE)])],
                          exprLog)
           ELSE IF r.tok = Keyword("Default")
           THEN IF ~re.ok THEN Fail(re, Some(log))
                ELSE Goto(re.lexer, "ddl_constraint",
                          [locals EXCEPT !.col = Some([col EXCEPT !.default = Some(re.v)])],
                          Some(log))
           ELSE Fail(Err("Unexpected keyword", <<r.tok>>, r.lexer), exprLog)

\* the tail of the column loop of parse_ddl_create_table (lib.rs:146-153)
ParseDdlColumnsLoop ==
    /\ pc = "ddl_columns_loop"
    /\ LET r1 == next_expect(input, lexer, Symbol("Comma"))
           r2 == next_expect(input, r1.lexer, Symbol("CloseParen"))
       IN  IF r1.ok THEN Goto(r1.lexer, "parse_ddl_column", locals, exprLog)
           ELSE IF ~r2.ok THEN Fail(r2, exprLog)
           ELSE Return(r2.lexer,
                       [kind |-> "Create", table_name |-> locals.table_name,
                        columns |-> locals.columns],
                       locals, exprLog)

\* Parser::parse without the look at what follows the `;`
Parse_NoTrailingCheck ==
    /\ pc = "parse"
    /\ LET r1 == next_expect(input, lexer, Symbol("Semicolon"))
       IN  IF ~r1.ok THEN Fail(r1, exprLog)
           ELSE /\ lexer' = r1.lexer
                /\ pc' = "done"
                /\ semiEnd' = r1.lexer.inner
                /\ result' = [kind |-> "ok", msg |-> "", toks |-> <<>>]
                /\ UNCHANGED <<input, locals, stmt, plan, exprLog>>

\* Parser::parse after parse_statement returned Ok (lib.rs:47-54)
Parse ==
    /\ pc = "parse"
    /\ LET r1 == next_expect(input, lexer, Symbol("Semicolon"))
           r2 == peek(input, r1.lexer)
       IN  IF ~r1.ok THEN Fail(r1, exprLog)
           ELSE /\ lexer' = r2.lexer
                /\ pc' = "done"
                /\ semiEnd' = r1.lexer.inner
                /\ result' = IF r2.ok
                             THEN [kind |-> "err", msg |-> "Unexpected token", toks |-> <<r2.v>>]
                             ELSE [kind |-> "ok", msg |-> "", toks |-> <<>>]
                /\ UNCHANGED <<input, locals, stmt, plan, exprLog>>

\* Plan::build on the Statement of a successful parse (planner/src/lib.rs:30-32,
\* planner.rs:10-12)
PlanBuild ==
    /\ pc = "done"
    /\ result.kind = "ok"
    /\ plan = None
    /\ plan' = Some(build_statement(stmt[1]))
    /\ UNCHANGED <<input, lexer, pc, locals, stmt, result, semiEnd, exprLog>>

(***************************************************************************)
(* Input texts.  A word is a sequence of characters; a text is words       *)
(* joined by single spaces, followed by a suffix.                          *)
(***************************************************************************)
w_create == <<"c", "r", "e", "a", "t", "e">>

w_table == <<"t", "a", "b", "l", "e">>

w_tabe == <<"t", "a", "b", "e">>

w_select == <<"s", "e", "l", "e", "c", "t">>

w_SELECT == <<"S", "E", "L", "E", "C", "T">>

w_From == <<"F", "r", "o", "m">>

w_from == <<"f", "r", "o", "m">>

w_insert == <<"i", "n", "s", "e", "r", "t">>

w_into == <<"i", "n", "t", "o">>

w_values == <<"v", "a", "l", "u", "e", "s">>

w_int == <<"i", "n", "t">>

w_integer == <<"i", "n", "t", "e", "g", "e", "r">>

w_bool == <<"b", "o", "o", "l">>

w_boolean == <<"b", "o", "o", "l", "e", "a", "n">>

w_float == <<"f", "l", "o", "a", "t">>

w_double == <<"d", "o", "u", "b", "l", "e">>

w_string == <<"s", "t", "r", "i", "n", "g">>

w_text == <<"t", "e", "x", "t">>

w_varchar == <<"v", "a", "r", "c", "h", "a", "r">>

w_null == <<"n", "u", "l", "l">>

w_not == <<"n", "o", "t">>

w_default == <<"d", "e", "f", "a", "u", "l", "t">>

w_primary == <<"p", "r", "i", "m", "a", "r", "y">>

w_key == <<"k", "e", "y">>

w_true == <<"t", "r", "u", "e">>

w_FALSE == <<"F", "A", "L", "S", "E">>

w_t == <<"t">>

w_users == <<"u", "s", "e", "r", "s">>

w_a == <<"a">>

w_b == <<"b">>

w_c1 == <<"c", "1">>

w_lp == <<"(">>

w_rp == <<")">>

w_comma == <<",">>

w_semi == <<";">>

w_star == <<"*">>

w_hash == <<"#">>

w_0 == <<"0">>

w_1 == <<"1">>

w_007 == <<"0", "0", "7">>

w_2p3 == <<"2", ".", "3">>

w_1p == <<"1", ".">>

w_1p50 == <<"1", ".", "5", "0">>

w_abc == <<"'", "a", "b", "c", "'">>

w_open_ab == <<"'", "a", "b">>

w_i64max == <<"9", "2", "2", "3", "3", "7", "2", "0", "3", "6", "8", "5", "4", "7", "7", "5", "8", "0", "7">>

w_i64over == <<"9", "2", "2", "3", "3", "7", "2", "0", "3", "6", "8", "5", "4", "7", "7", "5", "8", "0", "8">>

w_20nines == <<"9", "9", "9", "9", "9", "9", "9", "9", "9", "9", "9", "9", "9", "9", "9", "9", "9", "9", "9", "9">>

w_1sup2 == <<"1", "sup2">>

w_euro == <<"euro">>

w_cafe == <<"c", "a", "f", "eacute">>

w_semi_nl == <<";", "\n", "\t", " ">>

\* the most columns in a generated CREATE
MaxCols == 2

\* the most constraints on a generated column definition
MaxConstraints == 2

\* the most names in a generated INSERT column list
MaxNames == 2

\* the most values in a generated row
MaxVals == 2

\* the most rows in a generated INSERT
MaxRows == 2

RECURSIVE Join(_)
Join(ws) ==
    IF ws = <<>> THEN <<>>
    ELSE IF Len(ws) = 1 THEN ws[1]
    ELSE ws[1] \o <<" ">> \o Join(Tail(ws))

\* the sequences of at most n pieces of P, concatenated
RECURSIVE Repeat(_, _)
Repeat(P, n) ==
    IF n = 0 THEN {<<>>}
    ELSE Repeat(P, n - 1) \cup {x \o y : x \in P, y \in Repeat(P, n - 1)}

TypeWords == {w_int, w_integer, w_bool, w_boolean, w_float, w_string, w_text, w_varchar}

LiteralWords == {w_0, w_1, w_007, w_2p3, w_1p, w_1p50, w_abc, w_true, w_FALSE, w_null,
                 w_i64max, w_i64over, w_20nines, w_1sup2}

Constraints == {<<w_null>>, <<w_not, w_null>>}
                 \cup {<<w_default, l>> : l \in {w_0, w_null, w_abc}}

ColDefs == {<<w_a, ty>> : ty \in TypeWords}
             \cup {<<w_a, w_int>> \o cs : cs \in Repeat(Constraints, MaxConstraints)}
             \cup {<<w_a, w_int, w_default, l>> : l \in LiteralWords}

MoreColDefs == {<<w_comma, w_c1, w_varchar, w_null>>}

CreateStmts ==
    {<<w_create, w_table, w_users, w_lp>> \o cd \o more \o <<w_rp>> :
        cd \in ColDefs, more \in Repeat(MoreColDefs, MaxCols - 1)}

NameLists == {<<>>} \cup {<<w_lp, w_a>> \o ns \o <<w_rp>> :
                             ns \in Repeat({<<w_comma, w_b>>}, MaxNames - 1)}

Rows == {<<w_lp, l>> \o ls \o <<w_rp>> :
            l \in LiteralWords,
            ls \in Repeat({<<w_comma, w_abc>>}, MaxVals - 1)}

MoreRows == Repeat({<<w_comma, w_lp, w_1, w_comma, w_true, w_rp>>}, MaxRows - 1)

InsertStmts ==
    {<<w_insert, w_into, w_users>> \o ns \o <<w_values>> \o row \o more :
        ns \in NameLists, row \in Rows, more \in MoreRows}

SelectStmts == {<<w_select, w_star, w_from, w_t>>, <<w_SELECT, w_star, w_From, w_cafe>>}

CoreStmts ==
    SelectStmts
      \cup {<<w_create, w_table, w_t, w_lp, w_a, w_int, w_default, w_0, w_not, w_null,
              w_comma, w_c1, w_varchar, w_null, w_rp>>,
            <<w_insert, w_into, w_t, w_lp, w_a, w_comma, w_b, w_rp, w_values,
              w_lp, w_1, w_comma, w_abc, w_rp>>,
            <<w_insert, w_into, w_t, w_values, w_lp, w_true, w_rp>>}

\* what follows the statement: nothing, the `;`, and a `;` followed by more
Suffixes ==
    {<<>>, <<w_semi>>, <<w_semi_nl>>, <<w_hash>>, <<w_hash, w_semi>>,
     <<w_semi, w_hash>>, <<w_semi, w_euro>>, <<w_semi, w_open_ab>>, <<w_semi, w_create>>,
     <<w_semi, w_semi>>, <<w_semi, w_1>>, <<w_semi, w_abc>>, <<w_semi, w_t, w_hash>>,
     <<w_semi, w_select, w_star, w_from, w_t, w_semi>>}

\* texts that stop or go wrong inside a statement: every prefix of a statement,
\* and a statement with one word replaced
Prefixes(ws) == {SubSeq(ws, 1, n) : n \in 0..Len(ws)}

Replaced(ws, i, S) == {[ws EXCEPT ![i] = x] : x \in S}

Broken ==
    LET c == <<w_create, w_table, w_t, w_lp, w_a, w_int, w_not, w_null, w_default, w_1,
               w_comma, w_b, w_text, w_rp, w_semi>>
        i == <<w_insert, w_into, w_t, w_lp, w_a, w_comma, w_b, w_rp, w_values,
               w_lp, w_1, w_comma, w_abc, w_rp, w_comma, w_lp, w_null, w_rp, w_semi>>
        q == <<w_select, w_star, w_from, w_t, w_semi>>
        odd == {w_tabe, w_select, w_create, w_1, w_abc, w_semi, w_lp, w_hash, w_double,
                w_primary, w_not, w_comma, w_rp, w_open_ab, w_euro, w_t}
    IN  UNION {Prefixes(x) : x \in {c, i, q}}
          \cup UNION {Replaced(c, k, odd) : k \in {1, 2, 3, 4, 5, 6, 8, 10, 11, 13, 14}}
          \cup UNION {Replaced(i, k, odd) : k \in {2, 3, 4, 5, 6, 8, 9, 10, 11, 12, 14, 15, 17}}
          \cup UNION {Replaced(q, k, odd) : k \in {2, 3, 4}}

Inputs ==
    {Join(st \o sf) : st \in CoreStmts, sf \in Suffixes}
      \cup {Join(st \o sf) : st \in CreateStmts \cup InsertStmts,
                             sf \in {<<>>, <<w_semi>>, <<w_semi, w_create>>}}
      \cup {Join(ws) : ws \in Broken}

Init ==
    /\ input \in Inputs
    /\ lexer = LexerNew
    /\ pc = "parse_statement"
    /\ locals = NoLocals
    /\ stmt = None
    /\ result = Running
    /\ plan = None
    /\ semiEnd = 0
    /\ exprLog = None

Next ==
    \/ ParseStatement
    \/ ParseDdl
    \/ ParseSelect
    \/ ParseInsert
    \/ ParseInsertColumns
    \/ ParseInsertValues
    \/ ParseInsertRow
    \/ ParseInsertExprs
    \/ ParseDdlCreateTable
    \/ ParseDdlColumn
    \/ ParseDdlConstraint
    \/ ParseDdlColumnsLoop
    \/ Parse
    \/ PlanBuild

Spec == Init /\ [][Next]_vars

\* ENABLED <<Next>>_vars as a state predicate: every parse_* function has a
\* step from its entry, whatever the lexer yields, and Plan::build has one
\* after an Ok parse
NextEnabled == pc # "done" \/ (result.kind = "ok" /\ plan = None)

\* Parser::parse and Plan::build are sequential code that runs to its return:
\* a step that can be taken is taken.  This is WF_vars(Next) with the
\* enabling condition written out.
SpecFair == Spec /\ ([]<>(~NextEnabled) \/ []<><<Next>>_vars)

(***************************************************************************)
(* What the properties speak about: the token sequence of a text, and the  *)
(* grammar of spec section 4.2 as a recogniser over token sequences.       *)
(***************************************************************************)
\* the tokens the Lexer yields from position pos up to its first None
RECURSIVE TokensFrom(_, _)
TokensFrom(text, pos) ==
    LET r == scan(text, pos)
    IN  IF r.tok = NoToken THEN <<>> ELSE <<r.tok>> \o TokensFrom(text, r.inner)

Toks == TokensFrom(input, 1)

Drop(s, n) == SubSeq(s, n + 1, Len(s))

Finished == pc = "done"

Failed(msg, toks) == result = [kind |-> "err", msg |-> msg, toks |-> toks]

IsLiteralToken(t) ==
    \/ t.type \in {"Number", "String"}
    \/ t \in {Keyword("True"), Keyword("False"), Keyword("Null")}

TypeKeywords == {Keyword("Int"), Keyword("Integer"), Keyword("Bool"), Keyword("Boolean"),
                 Keyword("Float"), Keyword("String"), Keyword("Text"), Keyword("Varchar")}

\* [<constraint>]*
RECURSIVE IsConstraints(_)
IsConstraints(s) ==
    \/ s = <<>>
    \/ /\ Len(s) >= 1
       /\ s[1] = Keyword("Null")
       /\ IsConstraints(Drop(s, 1))
    \/ /\ Len(s) >= 2
       /\ s[1] = Keyword("Not")
       /\ s[2] = Keyword("Null")
       /\ IsConstraints(Drop(s, 2))
    \/ /\ Len(s) >= 2
       /\ s[1] = Keyword("Default")
       /\ IsLiteralToken(s[2])
       /\ IsConstraints(Drop(s, 2))

\* <ident> <type-keyword> [<constraint>]*
IsColumnDef(s) ==
    /\ Len(s) >= 2
    /\ s[1].type = "Ident"
    /\ s[2] \in TypeKeywords
    /\ IsConstraints(Drop(s, 2))

\* <column-def> [, <column-def>]*
IsColumnDefs(s) ==
    LET bounds == {0, Len(s) + 1} \cup {i \in 1..Len(s) : s[i] = Symbol("Comma")}
    IN  \A b \in bounds \ {Len(s) + 1} :
            IsColumnDef(SubSeq(s, b + 1, Min({c \in bounds : c > b}) - 1))

IsCreate(s) ==
    /\ Len(s) >= 6
    /\ s[1] = Keyword("Create")
    /\ s[2] = Keyword("Table")
    /\ s[3].type = "Ident"
    /\ s[4] = Symbol("OpenParen")
    /\ s[Len(s)] = Symbol("CloseParen")
    /\ IsColumnDefs(SubSeq(s, 5, Len(s) - 1))

IsSelect(s) ==
    /\ Len(s) = 4
    /\ s[1] = Keyword("Select")
    /\ s[2] = Symbol("Asterisk")
    /\ s[3] = Keyword("From")
    /\ s[4].type = "Ident"

\* ( <item> [, <item>]* ) at the head of s, the items being idents or literals;
\* 0 if there is none, else the index of its `)`
ParenListEnd(s, idents) ==
    LET closes == {i \in 1..Len(s) : s[i] = Symbol("CloseParen")}
        close == Min(closes)
    IN  IF /\ Len(s) >= 3
           /\ s[1] = Symbol("OpenParen")
           /\ closes # {}
           /\ close % 2 = 1
           /\ \A i \in 2..(close - 1) :
                 IF i % 2 = 1 THEN s[i] = Symbol("Comma")
                 ELSE IF idents THEN s[i].type = "Ident"
                 ELSE IsLiteralToken(s[i])
        THEN close
        ELSE 0

\* ( <literal> [, <literal>]* ) [, ( ... )]*
RECURSIVE IsRows(_)
IsRows(s) ==
    LET e == ParenListEnd(s, FALSE)
    IN  /\ e > 0
        /\ \/ e = Len(s)
           \/ /\ e < Len(s)
              /\ s[e + 1] = Symbol("Comma")
              /\ IsRows(Drop(s, e + 1))

IsInsert(s) ==
    /\ Len(s) >= 4
    /\ s[1] = Keyword("Insert")
    /\ s[2] = Keyword("Into")
    /\ s[3].type = "Ident"
    /\ LET r == Drop(s, 3)
           e == IF r[1] = Symbol("OpenParen") THEN ParenListEnd(r, TRUE) ELSE 0
       IN  /\ r[1] = Symbol("OpenParen") => e > 0
           /\ Len(r) > e
           /\ r[e + 1] = Keyword("Values")
           /\ IsRows(Drop(r, e + 1))

IsStatement(s) == IsCreate(s) \/ IsInsert(s) \/ IsSelect(s)

\* the index of the `;` after a grammatical statement at the head of the
\* token sequence; 0 if the sequence does not start so
TerminatorIndex(s) ==
    LET semis == {i \in 1..Len(s) : s[i] = Symbol("Semicolon")}
    IN  IF semis # {} /\ IsStatement(SubSeq(s, 1, Min(semis) - 1)) THEN Min(semis) ELSE 0

Zeros(n) == [i \in 1..n |-> "0"]

\* d is a decimal numeral without leading zeros that is at most i64::MAX
FitsI64(d) ==
    /\ d # <<>>
    /\ \A i \in 1..Len(d) : d[i] \in AsciiDigit
    /\ d = <<"0">> \/ d[1] # "0"
    /\ Len(d) <= 19
    /\ Len(d) = 19 =>
         \A i \in 1..19 :
            (\A j \in 1..(i - 1) : d[j] = I64MaxDigits[j])
               => DigitValue(d[i]) <= DigitValue(I64MaxDigits[i])

\* the text of a Number token that str::parse turns into an i64 or an f64
IsConvertible(n) ==
    /\ \A i \in 1..Len(n) : n[i] \in AsciiDigit \cup {"."}
    /\ (\A i \in 1..Len(n) : n[i] \in AsciiDigit)
          => \E k \in 0..(Len(n) - 1) : n = Zeros(k) \o Drop(n, k) /\ FitsI64(Drop(n, k))

NumbersConvertible(s) ==
    \A i \in 1..Len(s) : s[i].type = "Number" => IsConvertible(s[i].val)

(***************************************************************************)
(* C1 (as stated; violated): whenever any non-whitespace character follows *)
(* the `;` that terminates the statement, Parser::parse returns an error,  *)
(* never a Statement.                                                      *)
(***************************************************************************)
C1_TrailingInputRejected ==
    (Finished /\ semiEnd > 0 /\ \E i \in semiEnd..Len(input) : input[i] \notin Whitespace)
        => result.kind = "err"

(***************************************************************************)
(* C2 (as stated; violated): when the tokenizer has reached, outside a     *)
(* string literal, an unrecognised punctuation character or a character of *)
(* no class, Parser::parse returns an error and never a Statement.         *)
(***************************************************************************)
C2_LexicalErrorFatal ==
    (Finished /\ "badchar" \in lexer.errs) => result.kind = "err"

(***************************************************************************)
(* C3 (as stated; violated): when the token sequence is a grammatical      *)
(* statement, then `;`, then at least one more token, Parser::parse fails  *)
(* with "Unexpected token" naming the first token after the `;`.           *)
(***************************************************************************)
C3_TrailingTokenReported ==
    LET k == TerminatorIndex(Toks)
    IN  (Finished /\ k > 0 /\ Len(Toks) > k) => Failed("Unexpected token", <<Toks[k + 1]>>)

(***************************************************************************)
(* C3 (amended): the same, for statements whose Number tokens all convert  *)
(* (ASCII digits with at most one point, an all-digit text within i64).    *)
(***************************************************************************)
C3_TrailingTokenReportedIfConvertible ==
    LET k == TerminatorIndex(Toks)
    IN  (Finished /\ k > 0 /\ Len(Toks) > k /\ NumbersConvertible(SubSeq(Toks, 1, k - 1)))
            => Failed("Unexpected token", <<Toks[k + 1]>>)

\* two statements, one after the other, have been rejected at the second
C3_Witness ==
    LET k == TerminatorIndex(Toks)
    IN  /\ Finished
        /\ k > 0
        /\ TerminatorIndex(Drop(Toks, k)) > 0
        /\ NumbersConvertible(SubSeq(Toks, 1, k - 1))
        /\ Failed("Unexpected token", <<Toks[k + 1]>>)

(***************************************************************************)
(* C4 (as stated; violated): when the token sequence is a complete         *)
(* grammatical statement with no `;` after it, Parser::parse fails with    *)
(* "Unexpected end of input"; and whenever the parse fails after the token *)
(* stream ran out, it fails with that error.                               *)
(***************************************************************************)
C4_EndOfInputReported ==
    /\ (Finished /\ IsStatement(Toks)) => Failed(EndOfInput, <<>>)
    /\ (Finished /\ result.kind = "err" /\ lexer.errs # {}) => Failed(EndOfInput, <<>>)

(***************************************************************************)
(* C4 (amended): the same, the first part for statements whose Number      *)
(* tokens all convert.                                                     *)
(***************************************************************************)
C4_EndOfInputReportedIfConvertible ==
    /\ (Finished /\ IsStatement(Toks) /\ NumbersConvertible(Toks))
          => Failed(EndOfInput, <<>>)
    /\ (Finished /\ result.kind = "err" /\ lexer.errs # {}) => Failed(EndOfInput, <<>>)

\* a complete CREATE with a numeric default and no `;` has been rejected
C4_Witness ==
    /\ Finished
    /\ IsCreate(Toks)
    /\ \E i \in 1..Len(Toks) : Toks[i].type = "Number"
    /\ NumbersConvertible(Toks)
    /\ Failed(EndOfInput, <<>>)

(***************************************************************************)
(* Lowering and planning: the AST columns of a planned CREATE next to the  *)
(* schema columns of its plan.                                             *)
(***************************************************************************)
Planned(kind) == plan # None /\ plan[1].kind = kind

ValueNull == [tag |-> "Null", val |-> <<>>]

\* P(c, sc) for every AST column c and the schema column sc lowered from it
ColumnIndices == IF Planned("Create") THEN 1..Len(stmt[1].columns) ELSE {}

AstColumn(i) == stmt[1].columns[i]

SchemaColumn(i) == plan[1].schema.columns[i]

(***************************************************************************)
(* C5 (as stated; violated): the lowered column has nullable = false iff   *)
(* the AST nullable was None or Some(false), and default = Some(Null) iff  *)
(* the AST default was unset and the resolved nullable is true.            *)
(***************************************************************************)
C5_RoundTripLowering ==
    \A i \in ColumnIndices :
        /\ SchemaColumn(i).nullable = FALSE <=> AstColumn(i).nullable \in {None, Some(FALSE)}
        /\ SchemaColumn(i).default = Some(ValueNull)
              <=> (AstColumn(i).default = None /\ SchemaColumn(i).nullable)

(***************************************************************************)
(* C5 (amended): nullable as stated; default = Some(Null) iff the AST      *)
(* default was unset and the resolved nullable is true, or the AST default *)
(* is the literal NULL.                                                    *)
(***************************************************************************)
C5_RoundTripLoweringOrNullLiteral ==
    \A i \in ColumnIndices :
        /\ SchemaColumn(i).nullable = FALSE <=> AstColumn(i).nullable \in {None, Some(FALSE)}
        /\ SchemaColumn(i).default = Some(ValueNull)
              <=> \/ AstColumn(i).default = None /\ SchemaColumn(i).nullable
                  \/ AstColumn(i).default = Some(ExpressionFrom(Const("Null", <<>>)))

\* a column written NOT NULL DEFAULT NULL has been lowered
C5_Witness ==
    \E i \in ColumnIndices :
        /\ AstColumn(i).nullable = Some(FALSE)
        /\ AstColumn(i).default = Some(ExpressionFrom(Const("Null", <<>>)))
        /\ SchemaColumn(i).default = Some(ValueNull)
        /\ ~SchemaColumn(i).nullable

(***************************************************************************)
(* C6: in the plan of a CREATE every schema column with nullable = true    *)
(* has a default; a column declared NULL without DEFAULT has default       *)
(* Some(Null); a column with a DEFAULT has the lowered value of its        *)
(* literal.                                                                *)
(***************************************************************************)
C6_NullableHasDefault ==
    \A i \in ColumnIndices :
        /\ SchemaColumn(i).nullable => SchemaColumn(i).default # None
        /\ (AstColumn(i).nullable = Some(TRUE) /\ AstColumn(i).default = None)
              => SchemaColumn(i).default = Some(ValueNull)
        /\ AstColumn(i).default # None
              => /\ SchemaColumn(i).default # None
                 /\ SchemaColumn(i).default[1].tag = AstColumn(i).default[1].const.tag
                 /\ SchemaColumn(i).default[1].val = AstColumn(i).default[1].const.val

\* a column declared NULL without DEFAULT has been planned
C6_Witness ==
    \E i \in ColumnIndices :
        /\ AstColumn(i).nullable = Some(TRUE)
        /\ AstColumn(i).default = None
        /\ SchemaColumn(i).nullable
        /\ SchemaColumn(i).default = Some(ValueNull)

(***************************************************************************)
(* C7: every accepted input gets a plan (Plan::build is enabled after a    *)
(* successful parse), and the plan's node kind and table name are those    *)
(* of the statement, which the text determines: Create gives Create,       *)
(* Insert gives Insert, Select gives Scan.                                 *)
(***************************************************************************)
C7_PlanMatchesStatement ==
    /\ (Finished /\ result.kind = "ok" /\ plan = None) => ENABLED PlanBuild
    /\ plan # None =>
          /\ Toks[1] \in {Keyword("Create"), Keyword("Insert"), Keyword("Select")}
          /\ Toks[1] = Keyword("Create") =>
                /\ stmt[1].kind = "Create"
                /\ plan[1].kind = "Create"
                /\ plan[1].schema.name = Toks[3].val
          /\ Toks[1] = Keyword("Insert") =>
                /\ stmt[1].kind = "Insert"
                /\ plan[1].kind = "Insert"
                /\ plan[1].table_name = Toks[3].val
          /\ Toks[1] = Keyword("Select") =>
                /\ stmt[1].kind = "Select"
                /\ plan[1].kind = "Scan"
                /\ plan[1].table_name = Toks[4].val

\* a SELECT has been planned as a Scan
C7_Witness == Planned("Scan") /\ Toks[1] = Keyword("Select") /\ plan[1].table_name = Toks[4].val

(***************************************************************************)
(* C8: the columns of a planned INSERT are empty iff the text has no       *)
(* parenthesised column list; a written list gives its names in order.     *)
(***************************************************************************)
\* the names between the `(` that is the fourth token and the first `)`
WrittenNames ==
    LET close == Min({i \in 1..Len(Toks) : Toks[i] = Symbol("CloseParen")})
    IN  [i \in 1..((close - 4) \div 2) |-> Toks[3 + 2 * i].val]

C8_InsertColumns ==
    Planned("Insert") =>
        /\ plan[1].columns = <<>> <=> Toks[4] # Symbol("OpenParen")
        /\ Toks[4] = Symbol("OpenParen") => plan[1].columns = WrittenNames

\* an INSERT with two written column names has been planned
C8_Witness ==
    /\ Planned("Insert")
    /\ Toks[4] = Symbol("OpenParen")
    /\ Len(plan[1].columns) = 2
    /\ plan[1].columns[1] # plan[1].columns[2]

(***************************************************************************)
(* C9 (as stated; violated): in expression position every Number token     *)
(* becomes a literal, Integer with the decimal value of its text when the  *)
(* text is all ASCII digits and Float with the value of its text           *)
(* otherwise; String, TRUE, FALSE, NULL become String, Boolean(true),      *)
(* Boolean(false), Null; any other token is an "unexpected expression      *)
(* token" error.                                                           *)
(***************************************************************************)
AllAsciiDigits(n) == \A i \in 1..Len(n) : n[i] \in AsciiDigit

\* v is the numeral of the integer that the digits n denote
IsIntegerValue(v, n) ==
    /\ v # <<>>
    /\ v = <<"0">> \/ v[1] # "0"
    /\ \E k \in 0..Len(n) : n = Zeros(k) \o v

\* v is the numeral of the number that the digits-and-point text n denotes
IsFloatValue(v, n) ==
    LET dots == {i \in 1..Len(v) : v[i] = "."}
        dot == Min(dots)
    IN  /\ Cardinality(dots) = 1
        /\ dot > 1
        /\ dot = 2 \/ v[1] # "0"
        /\ v[Len(v)] # "0"
        /\ \A i \in 1..Len(v) : v[i] \in AsciiDigit \cup {"."}
        /\ \E i \in 0..Len(n), j \in 0..Len(n) : n = Zeros(i) \o v \o Zeros(j)

\* what parse_expression gave for a token other than a Number
OtherTokenMapped(e) ==
    CASE e.tok.type = "String" ->
            e.ok /\ e.v = ExpressionFrom(Const("String", e.tok.val))
      [] e.tok = Keyword("True") ->
            e.ok /\ e.v = ExpressionFrom(Const("Boolean", <<"true">>))
      [] e.tok = Keyword("False") ->
            e.ok /\ e.v = ExpressionFrom(Const("Boolean", <<"false">>))
      [] e.tok = Keyword("Null") ->
            e.ok /\ e.v = ExpressionFrom(Const("Null", <<>>))
      [] e.tok = NoToken -> ~e.ok /\ e.msg = EndOfInput
      [] OTHER -> ~e.ok /\ e.msg = "Unexpected expression token"

C9_NumberBecomesLiteral ==
    exprLog # None =>
        LET e == exprLog[1]
        IN  IF e.tok.type # "Number" THEN OtherTokenMapped(e)
            ELSE /\ e.ok
                 /\ IF AllAsciiDigits(e.tok.val)
                    THEN /\ e.v.const.tag = "Integer"
                         /\ IsIntegerValue(e.v.const.val, e.tok.val)
                    ELSE /\ e.v.const.tag = "Float"
                         /\ IsFloatValue(e.v.const.val, e.tok.val)

(***************************************************************************)
(* C9 (amended): a Number token of ASCII digits becomes Integer with the   *)
(* decimal value of its text when that value is at most i64::MAX and       *)
(* makes the parse fail with the integer conversion error otherwise; any   *)
(* other Number token becomes Float with the value of its text when the    *)
(* text is ASCII digits and one point, and makes the parse fail with the   *)
(* float conversion error otherwise; the other tokens as stated.           *)
(***************************************************************************)
C9_NumberBecomesLiteralIfConvertible ==
    exprLog # None =>
        LET e == exprLog[1]
            n == e.tok.val
        IN  IF e.tok.type # "Number" THEN OtherTokenMapped(e)
            ELSE IF AllAsciiDigits(n)
            THEN IF IsConvertible(n)
                 THEN /\ e.ok
                      /\ e.v.const.tag = "Integer"
                      /\ IsIntegerValue(e.v.const.val, n)
                 ELSE ~e.ok /\ e.msg = "ParseIntError"
            ELSE IF IsConvertible(n)
                 THEN /\ e.ok
                      /\ e.v.const.tag = "Float"
                      /\ IsFloatValue(e.v.const.val, n)
                 ELSE ~e.ok /\ e.msg = "ParseFloatError"

\* the Number token 1.50 has become a Float
C9_Witness ==
    /\ exprLog # None
    /\ exprLog[1].tok = Number(w_1p50)
    /\ exprLog[1].ok
    /\ exprLog[1].v = ExpressionFrom(Const("Float", <<"1", ".", "5">>))

(***************************************************************************)
(* C10: when the first token is CREATE and the second token exists and is  *)
(* not TABLE, Parser::parse fails with "Not a ddl statement" naming the    *)
(* two tokens consumed, and no Statement is returned.                      *)
(***************************************************************************)
C10_NotDdlStatement ==
    (Finished /\ Len(Toks) >= 2 /\ Toks[1] = Keyword("Create") /\ Toks[2] # Keyword("Table"))
        => /\ Failed("Not a ddl statement", <<Toks[1], Toks[2]>>)
           /\ stmt = None

\* `create tabe ...` has been rejected
C10_Witness ==
    /\ Finished
    /\ Len(Toks) >= 2
    /\ Toks[2] = Ident(w_tabe)
    /\ Failed("Not a ddl statement", <<Keyword("Create"), Ident(w_tabe)>>)

(***************************************************************************)
(* The constraint position of a column definition: the token at index k    *)
(* of the token sequence s follows `CREATE TABLE <ident> (`, complete      *)
(* column definitions and the name, type and complete constraints of one   *)
(* more, with every Number before it convertible.                          *)
(***************************************************************************)
InConstraintPosition(s, k) ==
    /\ k \in 1..Len(s)
    /\ IsCreate(SubSeq(s, 1, k - 1) \o <<Symbol("CloseParen")>>)
    /\ NumbersConvertible(SubSeq(s, 1, k - 1))

\* a NOT in constraint position that is not followed by NULL
BareNotAt(s, k) ==
    /\ InConstraintPosition(s, k)
    /\ s[k] = Keyword("Not")
    /\ k < Len(s) => s[k + 1] # Keyword("Null")

(***************************************************************************)
(* C11 (as stated; violated): a NOT keyword in constraint position that is *)
(* not followed by NULL makes the parse fail with the "unexpected keyword" *)
(* error, not with the grammar-mismatch error "Expected X, got Y".         *)
(***************************************************************************)
C11_BareNotUnexpectedKeyword ==
    Finished =>
        LET s == Toks
        IN  \A k \in 1..Len(s) :
                BareNotAt(s, k)
                    => /\ result.kind = "err"
                       /\ result.msg = "Unexpected keyword"
                       /\ result.msg # "Expected"

(***************************************************************************)
(* C11 (amended): a NOT keyword in constraint position that is followed by *)
(* a token other than NULL makes the parse fail with the grammar-mismatch  *)
(* error "Expected Keyword(Null), got Y" naming that token, and with       *)
(* "Unexpected end of input" when no token follows; the "unexpected        *)
(* keyword" error, a different kind, is what a keyword other than NULL,    *)
(* NOT and DEFAULT in constraint position gets.  No Statement is returned. *)
(***************************************************************************)
C11_BareNotGrammarMismatch ==
    Finished =>
        LET s == Toks
        IN  \A k \in 1..Len(s) :
                /\ BareNotAt(s, k)
                      => /\ IF k < Len(s)
                            THEN Failed("Expected", <<Keyword("Null"), s[k + 1]>>)
                            ELSE Failed(EndOfInput, <<>>)
                         /\ stmt = None
                /\ (/\ InConstraintPosition(s, k)
                    /\ s[k].type = "Keyword"
                    /\ s[k] \notin {Keyword("Null"), Keyword("Not"), Keyword("Default")})
                      => /\ Failed("Unexpected keyword", <<s[k]>>)
                         /\ stmt = None

\* `a int not primary` has been rejected as a grammar mismatch
C11_Witness ==
    /\ Finished
    /\ LET s == Toks
       IN  \E k \in 1..(Len(s) - 1) : BareNotAt(s, k) /\ s[k + 1] = Keyword("Primary")
    /\ Failed("Expected", <<Keyword("Null"), Keyword("Primary")>>)

(***************************************************************************)
(* The constraints written on the columns of a returned CREATE, read off   *)
(* the token sequence s: a constraint is [kind, null, lit], of kind        *)
(* "nullable" with null TRUE (NULL) or FALSE (NOT NULL), or of kind        *)
(* "default" with lit the literal token.                                   *)
(***************************************************************************)
Created == stmt # None /\ stmt[1].kind = "Create"

\* the tokens of the i-th column definition of CREATE TABLE <ident> ( ... )
ColumnTokens(s, i) ==
    LET close == Min({k \in 1..Len(s) : s[k] = Symbol("CloseParen")})
        bounds == {4, close} \cup {k \in 5..close : s[k] = Symbol("Comma")}
        from == CHOOSE b \in bounds : Cardinality({c \in bounds : c < b}) = i - 1
        to == Min({c \in bounds : c > from})
    IN  SubSeq(s, from + 1, to - 1)

Nullability(b) == [kind |-> "nullable", null |-> b, lit |-> NoToken]

DefaultOf(t) == [kind |-> "default", null |-> FALSE, lit |-> t]

RECURSIVE ConstraintsOf(_)
ConstraintsOf(s) ==
    IF s = <<>> THEN <<>>
    ELSE IF s[1] = Keyword("Null") THEN <<Nullability(TRUE)>> \o ConstraintsOf(Drop(s, 1))
    ELSE IF s[1] = Keyword("Not") THEN <<Nullability(FALSE)>> \o ConstraintsOf(Drop(s, 2))
    ELSE <<DefaultOf(s[2])>> \o ConstraintsOf(Drop(s, 2))

\* the last constraint of a kind in cs, None if there is none
LastOf(cs, kind) ==
    LET at == {j \in 1..Len(cs) : cs[j].kind = kind}
    IN  IF at = {} THEN None ELSE Some(cs[CHOOSE j \in at : \A l \in at : l <= j])

\* the Expression a literal token stands for
LiteralExpression(t) == ExpressionOf(Ok(t, LexerNew)).v

\* the AST Column of the definition with the tokens def, its constraints being cs
ColumnWith(def, cs) ==
    [name |-> def[1].val,
     data_type |-> DataTypeOf(def[2])[1],
     nullable |-> IF LastOf(cs, "nullable") = None THEN None
                  ELSE Some(LastOf(cs, "nullable")[1].null),
     default |-> IF LastOf(cs, "default") = None THEN None
                 ELSE Some(LiteralExpression(LastOf(cs, "default")[1].lit))]

\* cs with the constraints at j and j + 1 swapped
Swapped(cs, j) == [cs EXCEPT ![j] = cs[j + 1], ![j + 1] = cs[j]]

(***************************************************************************)
(* C12: constraints may be written in any order and repeatedly: the AST    *)
(* Column of a column definition carries, for each constraint kind, the    *)
(* value of the last occurrence of that kind, and it is the Column of the  *)
(* definition with a nullability constraint and a neighbouring DEFAULT     *)
(* constraint swapped.                                                     *)
(***************************************************************************)
C12_ConstraintOrder ==
    Created =>
        LET s == Toks
        IN  \A i \in 1..Len(stmt[1].columns) :
                LET def == ColumnTokens(s, i)
                    cs == ConstraintsOf(Drop(def, 2))
                IN  /\ stmt[1].columns[i] = ColumnWith(def, cs)
                    /\ \A j \in 1..(Len(cs) - 1) :
                          cs[j].kind # cs[j + 1].kind
                              => stmt[1].columns[i] = ColumnWith(def, Swapped(cs, j))

\* `a int default 0 not null` and `a int not null default 0` have given the
\* same column, with nullable = Some(false) and default = Some(0)
C12_Witness ==
    /\ Created
    /\ LET cs == ConstraintsOf(Drop(ColumnTokens(Toks, 1), 2))
       IN  cs \in {<<DefaultOf(Number(w_0)), Nullability(FALSE)>>,
                   <<Nullability(FALSE), DefaultOf(Number(w_0))>>}
    /\ stmt[1].columns[1].nullable = Some(FALSE)
    /\ stmt[1].columns[1].default = Some(ExpressionFrom(Const("Integer", <<"0">>)))

(***************************************************************************)
(* The column-type position: the token at index k of the token sequence s  *)
(* follows the name of a column definition, which follows `CREATE TABLE    *)
(* <ident> (` or complete column definitions and a comma, with every       *)
(* Number before it convertible.                                           *)
(***************************************************************************)
InTypePosition(s, k) ==
    /\ k \in 6..Len(s)
    /\ s[k - 1].type = "Ident"
    /\ \/ /\ k = 6
          /\ s[1] = Keyword("Create")
          /\ s[2] = Keyword("Table")
          /\ s[3].type = "Ident"
          /\ s[4] = Symbol("OpenParen")
       \/ /\ s[k - 2] = Symbol("Comma")
          /\ IsCreate(SubSeq(s, 1, k - 3) \o <<Symbol("CloseParen")>>)
          /\ NumbersConvertible(SubSeq(s, 1, k - 3))

\* the number of the column definition the token at index k belongs to
ColumnNumber(s, k) == 1 + Cardinality({j \in 5..(k - 1) : s[j] = Symbol("Comma")})

\* the columns parse_ddl_column has produced: those pushed, and the one whose
\* constraints are being parsed
ProducedColumns ==
    locals.columns \o (IF locals.col = None THEN <<>> ELSE <<locals.col[1]>>)

\* the DataType spelled by a type keyword (lexer.rs:13-17), None for any
\* other token
SpelledType(t) ==
    CASE t \in {Keyword("Int"), Keyword("Integer")} -> Some("Integer")
      [] t \in {Keyword("Bool"), Keyword("Boolean")} -> Some("Boolean")
      [] t \in {Keyword("String"), Keyword("Text"), Keyword("Varchar")} -> Some("String")
      [] t = Keyword("Float") -> Some("Float")
      [] OTHER -> None

RECURSIVE TokenEndsFrom(_, _)
TokenEndsFrom(text, pos) ==
    LET r == scan(text, pos)
    IN  IF r.tok = NoToken THEN <<>> ELSE <<r.inner>> \o TokenEndsFrom(text, r.inner)

Scans(ends, L) == Cardinality({i \in 1..Len(ends) : ends[i] <= L.inner})

Lookahead(L) == IF L.peeked # None /\ L.peeked[1] # NoToken THEN 1 ELSE 0

ConsumedTokens == Scans(TokenEndsFrom(input, 1), lexer) - Lookahead(lexer)

\* a step of the parser that goes on parsing: not the look at the first token
\* in parse_statement, not the exit of the constraint loop, not a return to
\* the caller of Parser::parse
GoesOn ==
    /\ pc # "parse_statement"
    /\ ~(pc = "ddl_constraint" /\ pc' = "ddl_columns_loop")
    /\ pc' # "done"

\* an iteration of one of the parser's loops: column names, values in a row,
\* value rows, constraints, column definitions
Iteration ==
    <<pc, pc'>> \in {<<"insert_columns", "insert_columns">>,
                     <<"insert_exprs", "insert_exprs">>,
                     <<"insert_exprs", "insert_row">>,
                     <<"ddl_constraint", "ddl_constraint">>,
                     <<"ddl_columns_loop", "parse_ddl_column">>}

\* every scan of the text, from any position, that yields a token consumes
\* at least one character, and no scan moves the cursor back or past the end
ScanConsumes ==
    \A p \in 1..(Len(input) + 1) :
        LET r == scan(input, p)
        IN  /\ r.inner \in p..(Len(input) + 1)
            /\ r.tok # NoToken => r.inner > p

(***************************************************************************)
(* C14: Parser::parse terminates with a Statement or an error; every scan  *)
(* that yields a token consumes at least one character, and every          *)
(* iteration of a parser loop, as every other step that goes on parsing,   *)
(* consumes at least one token.                                            *)
(***************************************************************************)
C14_Terminates ==
    /\ <>(/\ Finished
          /\ result.kind \in {"ok", "err"}
          /\ (result.kind = "ok") => (stmt # None))
    /\ [][LET ends == TokenEndsFrom(input, 1)
              before == Scans(ends, lexer) - Lookahead(lexer)
          IN  /\ (pc = "parse_statement") => ScanConsumes
              /\ (GoesOn \/ Iteration)
                    => (before < Scans(ends, lexer') - Lookahead(lexer'))]_vars

\* a two-row INSERT with two names and two values has been parsed with every
\* loop iterated and every token consumed
C14_Witness ==
    /\ Finished
    /\ result.kind = "ok"
    /\ stmt[1].kind = "Insert"
    /\ Len(stmt[1].values) = 2
    /\ Len(stmt[1].values[2]) = 2
    /\ stmt[1].columns # None
    /\ Len(stmt[1].columns[1]) = 2
    /\ ConsumedTokens = Len(TokenEndsFrom(input, 1))

(***************************************************************************)
(* The places of a parenthesised list: the `(` at index k of the token     *)
(* sequence s opens the column definitions of a CREATE, the column names   *)
(* of an INSERT, or a value row (the first after VALUES, a later one after *)
(* a row and a comma), every Number before it being convertible.           *)
(***************************************************************************)
OpensColumns(s, k) ==
    /\ k = 4
    /\ s[1] = Keyword("Create")
    /\ s[2] = Keyword("Table")
    /\ s[3].type = "Ident"

OpensNames(s, k) ==
    /\ k = 4
    /\ s[1] = Keyword("Insert")
    /\ s[2] = Keyword("Into")
    /\ s[3].type = "Ident"

OpensRow(s, k) ==
    /\ k > 4
    /\ NumbersConvertible(SubSeq(s, 1, k - 1))
    /\ \/ /\ s[k - 1] = Keyword("Values")
          /\ IsInsert(SubSeq(s, 1, k - 1)
                         \o <<Symbol("OpenParen"), Keyword("True"), Symbol("CloseParen")>>)
       \/ /\ s[k - 1] = Symbol("Comma")
          /\ IsInsert(SubSeq(s, 1, k - 2))

\* an empty `()` at index k
EmptyParensAt(s, k) ==
    /\ k < Len(s)
    /\ s[k] = Symbol("OpenParen")
    /\ s[k + 1] = Symbol("CloseParen")

(***************************************************************************)
(* C15: every Statement parse_statement returns is non-degenerate: a       *)
(* Create has at least one column, an Insert has at least one value row,   *)
(* every row at least one expression, and a column list that is present    *)
(* at least one name; an input with an empty `()` for the column           *)
(* definitions, the column names or a value row is rejected.               *)
(***************************************************************************)
C15_NonDegenerate ==
    /\ (stmt # None /\ stmt[1].kind = "Create") => Len(stmt[1].columns) >= 1
    /\ (stmt # None /\ stmt[1].kind = "Insert")
          => /\ Len(stmt[1].values) >= 1
             /\ \A i \in 1..Len(stmt[1].values) : Len(stmt[1].values[i]) >= 1
             /\ stmt[1].columns # None => Len(stmt[1].columns[1]) >= 1
    /\ Finished =>
          LET s == Toks
          IN  \A k \in 1..Len(s) :
                  /\ (EmptyParensAt(s, k) /\ (OpensColumns(s, k) \/ OpensNames(s, k)))
                        => /\ Failed("Expected ident", <<Symbol("CloseParen")>>)
                           /\ stmt = None
                  /\ (EmptyParensAt(s, k) /\ OpensRow(s, k))
                        => /\ Failed("Unexpected expression token", <<Symbol("CloseParen")>>)
                           /\ stmt = None

\* `create table t ( ) ...` has been rejected
C15_Witness ==
    /\ Finished
    /\ LET s == Toks IN EmptyParensAt(s, 4) /\ OpensColumns(s, 4)
    /\ Failed("Expected ident", <<Symbol("CloseParen")>>)
    /\ stmt = None

(***************************************************************************)
(* The token stream as the parser sees it from the lexer state L: the      *)
(* token held as lookahead, then the tokens the Lexer yields from its      *)
(* cursor, up to the first None.                                           *)
(***************************************************************************)
StreamOf(L) ==
    IF L.peeked = None THEN TokensFrom(input, L.inner)
    ELSE IF L.peeked[1] = NoToken THEN <<>>
    ELSE <<L.peeked[1]>> \o TokensFrom(input, L.inner)

\* the tokens the parser expects by next_expect (lib.rs:47-151, 174)
ExpectedTokens ==
    {Symbol("Semicolon"), Symbol("Asterisk"), Symbol("OpenParen"), Symbol("CloseParen"),
     Symbol("Comma"), Keyword("Select"), Keyword("From"), Keyword("Insert"),
     Keyword("Into"), Keyword("Values"), Keyword("Null")}

\* what a call of next_expect(e) in the current state does, the stream being
\* `stream`: it takes the next token, leaving the lexer as Peekable::next does
\* (`taken`), or it fails, leaving the lexer as Peekable::peek does (`peeked`)
ExpectLeavesOrTakes(stream, peeked, taken, e) ==
    LET r == next_expect(input, lexer, e)
    IN  IF stream # <<>> /\ stream[1] = e
        THEN r.ok /\ r.v = e /\ r.lexer = taken
        ELSE /\ ~r.ok
             /\ r.lexer = peeked
             /\ stream # <<>> => (r.msg = "Expected" /\ r.toks = <<e, stream[1]>>)

\* the number of tokens a step consumes after a failed optional match:
\* INSERT's optional `(` (INSERT INTO <ident> are taken, the token that is
\* no `(` is left), the optional `,` after a value row (the expression and
\* the `)` are taken) and after a column definition (the `)` is taken)
TakenAfterFailedOption ==
    CASE pc = "parse_insert" /\ pc' = "insert_values" -> {3}
      [] pc = "insert_exprs" /\ pc' = "parse" -> {2}
      [] pc = "ddl_columns_loop" /\ pc' = "parse" -> {1}
      [] pc = "ddl_columns_loop" /\ pc' = "done" -> {0}
      [] OTHER -> 0..Len(input)

(***************************************************************************)
(* C16: the parser never backtracks.  The tokens still to come are the     *)
(* token sequence of the text less the tokens consumed, whose number never *)
(* decreases; a look at the next token leaves the stream as it was; a call *)
(* of next_expect, whatever token it expects, takes the next token if it   *)
(* is the expected one and else returns an error and does no more than     *)
(* look; after a failed optional match the token that did not match is     *)
(* still the next one.                                                     *)
(***************************************************************************)
C16_NoBacktracking ==
    /\ [](LET stream == StreamOf(lexer)
              peeked == PeekablePeek(input, lexer).lexer
              taken == PeekableNext(input, lexer).lexer
          IN  /\ stream = Drop(Toks, ConsumedTokens)
              /\ StreamOf(peeked) = stream
              /\ stream # <<>> => StreamOf(taken) = Tail(stream)
              /\ \A e \in ExpectedTokens : ExpectLeavesOrTakes(stream, peeked, taken, e))
    /\ [][LET ends == TokenEndsFrom(input, 1)
              before == Scans(ends, lexer) - Lookahead(lexer)
              after == Scans(ends, lexer') - Lookahead(lexer')
          IN  /\ lexer'.inner >= lexer.inner
              /\ after >= before
              /\ after - before \in TakenAfterFailedOption]_vars

\* INSERT's optional `(` has failed on VALUES, which is still the next token
C16_Witness ==
    /\ pc = "insert_values"
    /\ locals.columns = None
    /\ lexer.peeked = Some(Keyword("Values"))
    /\ ConsumedTokens = 3
    /\ StreamOf(lexer)[1] = Keyword("Values")
    /\ ~next_expect(input, lexer, Symbol("OpenParen")).ok

(***************************************************************************)
(* End of sequence.  The Lexer has reported it in a lexer state L when     *)
(* L.errs holds a reason: the end of the text ("eof"), an unrecognised     *)
(* character ("badchar") or an unterminated string ("unterminated").       *)
(***************************************************************************)
\* the most requests for a token followed after the end of the sequence
MaxRequests == 3

\* the lexer states after at most n requests (Peekable::peek, Peekable::next,
\* Peekable::next_if) made in the lexer state L
RECURSIVE AfterRequests(_, _)
AfterRequests(L, n) ==
    IF n = 0 THEN {L}
    ELSE LET before == AfterRequests(L, n - 1)
         IN  before \cup {PeekablePeek(input, M).lexer : M \in before}
                    \cup {PeekableNext(input, M).lexer : M \in before}
                    \cup {PeekableNextIf(input, M, {"Keyword"}).lexer : M \in before}

\* every request made in the lexer state L reports the end of the sequence
ReportsEnd(L) ==
    /\ PeekablePeek(input, L).tok = NoToken
    /\ PeekableNext(input, L).tok = NoToken
    /\ PeekableNextIf(input, L, {"Keyword"}).tok = NoToken
    /\ peek(input, L) = Err(EndOfInput, <<>>, PeekablePeek(input, L).lexer)
    /\ next(input, L) = Err(EndOfInput, <<>>, PeekableNext(input, L).lexer)

(***************************************************************************)
(* C17: once the Lexer has reported the end of the sequence (at the end of *)
(* the text, at an unrecognised character or after an unterminated         *)
(* string), every later request for a token reports it too, however many   *)
(* times the parser peeks or advances, and no further token is consumed.   *)
(***************************************************************************)
C17_EndIsSticky ==
    /\ [](lexer.errs # {} => \A L \in AfterRequests(lexer, MaxRequests) : ReportsEnd(L))
    /\ [][lexer.errs # {}
            => /\ lexer'.errs # {}
               /\ lexer'.peeked \in {None, Some(NoToken)}
               /\ (lexer.peeked = None) => (lexer'.inner = lexer.inner)]_vars

\* `insert into t` has ended before the optional `(`, and VALUES has then
\* been asked for
C17_Witness ==
    /\ Finished
    /\ Toks = <<Keyword("Insert"), Keyword("Into"), Ident(w_t)>>
    /\ lexer.errs = {"eof"}
    /\ lexer.peeked = Some(NoToken)
    /\ locals.columns = None
    /\ Failed(EndOfInput, <<>>)

====
